---- MODULE Spec2Model ----
(***************************************************************************)
(* A model of the medical-chatbot service: the in-memory patient store and *)
(* its register_or_update handler (src/app.py), the change-set diff, the   *)
(* reply normalizer, the schema sanitizer and the three extraction         *)
(* operations (src/llm_analyzer.py, src/app.py).                           *)
(*                                                                         *)
(* A JSON value x is a pair: x[1] is the Python type of the decoded value  *)
(* and x[2] its payload.  A Python exception is the value Raise(kind);     *)
(* every operator that can raise propagates it the way the interpreter     *)
(* unwinds to the nearest except clause.                                   *)
(***************************************************************************)
EXTENDS Integers, Sequences, FiniteSets, TLC

VARIABLES
    patients_db,         \* app.py:16, the dict as a sequence of [key, rec] in insertion order
    patient_id_counter,  \* app.py:17
    request,             \* the body of the last handled register_or_update request
    response,            \* what the handler returned for it
    served,              \* how many requests the service has handled
    procs,               \* the concurrent handlers' positions and locals
    fin,                 \* input of the pure function under check
    fout                 \* its result

vars == <<patients_db, patient_id_counter, request, response, served, procs, fin, fout>>

-----------------------------------------------------------------------------
(* JSON values and the Python operations the code applies to them          *)

Null     == <<"null", 0>>
\* a key the request body does not hold
Absent   == <<"absent", 0>>
Num(n)   == <<"num", n>>
Bool(b)  == <<"bool", b>>
\* a string is a sequence of tokens: "SP" is one blank, any other token a
\* run of non-blank characters (a word)
Str(s)   == <<"str", s>>
List(s)  == <<"list", s>>
Obj(f)   == <<"obj", f>>
Raise(e) == <<"raise", e>>

W(tok)    == Str(<<tok>>)
EmptyStr  == Str(<<>>)
EmptyList == List(<<>>)
EmptyObj  == Obj([x \in {} |-> Null])

IsRaise(x) == x[1] = "raise"

Range(s) == {s[i] : i \in DOMAIN s}

\* Python truthiness (bool(x))
Truthy(x) ==
    CASE x[1] = "null" -> FALSE
      [] x[1] = "bool" -> x[2]
      [] x[1] = "num"  -> x[2] # 0
      [] x[1] = "str"  -> x[2] # <<>>
      [] x[1] = "list" -> x[2] # <<>>
      [] x[1] = "obj"  -> DOMAIN x[2] # {}
      [] OTHER        -> TRUE

YesNo(b) == IF b THEN "yes" ELSE "no"

\* `key in x` for a str key: "yes", "no", or "TypeError" when x is not a
\* container (dict: a key; list: an element; str: a substring)
In(key, x) ==
    CASE x[1] = "obj"  -> YesNo(key \in DOMAIN x[2])
      [] x[1] = "list" -> YesNo(W(key) \in Range(x[2]))
      [] x[1] = "str"  -> YesNo(key \in Range(x[2]))
      [] OTHER        -> "TypeError"

\* x.get(key, default): only a dict has .get
Get(x, key, default) ==
    IF x[1] # "obj" THEN Raise("AttributeError")
    ELSE IF key \in DOMAIN x[2] THEN x[2][key] ELSE default

\* x[key] = val for a str key: only a dict accepts it
SetItem(x, key, val) ==
    IF x[1] # "obj" THEN Raise("TypeError")
    ELSE Obj([q \in DOMAIN x[2] \cup {key} |-> IF q = key THEN val ELSE x[2][q]])

\* str.strip() on a token sequence: is anything left?
IsBlank(s) == \A i \in DOMAIN s : s[i] = "SP"

-----------------------------------------------------------------------------
(* The Text Normalizer.  A reply text is a sequence of characters:         *)
(*   "SP"  a blank: whitespace, printable                                  *)
(*   "NL"  a line break: whitespace, not printable                         *)
(*   "NUL" a control character: neither whitespace nor printable           *)
(*   "BT" a backtick; "j" "s" "o" "n" "J" "S" "O" "N" the fence's letters    *)
(*   "x"   any other printable character                                   *)
(*   a name of DocTable: the text of one JSON document, which holds no     *)
(*   backtick and so is never cut by the two slices                        *)

IsSpace(c)     == c \in {"SP", "NL"}
IsPrintable(c) == c \notin {"NL", "NUL"}
LowerChar(c) ==
    CASE c = "J" -> "j" [] c = "S" -> "s" [] c = "O" -> "o" [] c = "N" -> "n"
      [] OTHER -> c
Lower(t) == [i \in DOMAIN t |-> LowerChar(t[i])]

\* str.strip()
RECURSIVE LStrip(_)
LStrip(t) == IF t # <<>> /\ IsSpace(t[1]) THEN LStrip(Tail(t)) ELSE t
RECURSIVE RStrip(_)
RStrip(t) == IF t # <<>> /\ IsSpace(t[Len(t)]) THEN RStrip(SubSeq(t, 1, Len(t) - 1)) ELSE t
Strip(t) == RStrip(LStrip(t))

FenceOpen  == <<"BT", "BT", "BT", "j", "s", "o", "n">>
FenceClose == <<"BT", "BT", "BT">>

StartsWith(t, p) == Len(t) >= Len(p) /\ SubSeq(t, 1, Len(p)) = p
EndsWith(t, p)   == Len(t) >= Len(p) /\ SubSeq(t, Len(t) - Len(p) + 1, Len(t)) = p

clean_response_text(response_text) ==
    LET t1 == Strip(response_text)
        t2 == IF StartsWith(Lower(t1), FenceOpen)
              THEN Strip(SubSeq(t1, 8, Len(t1))) ELSE t1
        t3 == IF EndsWith(t2, FenceClose)
              THEN Strip(SubSeq(t2, 1, Len(t2) - 3)) ELSE t2
    IN  SelectSeq(t3, IsPrintable)

-----------------------------------------------------------------------------
(* json.loads on the texts the model draws: DocTable is the finite table   *)
(* of JSON documents a reply can hold, by name                             *)

Flu        == Obj([condition |-> W("flu")])
MedKeys    == {"illnesses", "surgeries", "allergies", "current_medications"}
MedDefault == Obj([q \in MedKeys |-> EmptyList])

DemoStrKeys == {"marital_status", "occupation", "ethnicity"}
DemoDefault == Obj([q \in DemoStrKeys \cup {"preferred_language"} |->
                      IF q = "preferred_language" THEN EmptyList ELSE EmptyStr])

\* llm_analyzer.py:71-76
default_structure ==
    Obj([name |-> Obj([first_name |-> EmptyStr, middle_name |-> EmptyStr,
                       last_name |-> EmptyStr]),
         address |-> Obj([line1 |-> EmptyStr, line2 |-> EmptyStr, city |-> EmptyStr,
                          state |-> EmptyStr, zip |-> EmptyStr]),
         contact_info |-> Obj([email |-> EmptyStr, phone |-> EmptyStr]),
         specifications |-> Obj([gender |-> EmptyStr, date_of_birth |-> EmptyStr])])

\* a reply that fills the personal schema (line2 is blank)
PersonalFull ==
    Obj([name |-> Obj([first_name |-> W("Ann"), middle_name |-> EmptyStr,
                       last_name |-> W("Doe")]),
         address |-> Obj([line1 |-> W("1 Main St"), line2 |-> Str(<<"SP", "SP">>),
                          city |-> W("Leeds"), state |-> W("WY"), zip |-> W("LS1")]),
         contact_info |-> Obj([email |-> W("a@x.com"), phone |-> W("555")]),
         specifications |-> Obj([gender |-> W("F"), date_of_birth |-> W("1990-01-01")])])

\* obj with obj[group][key] = val
SetIn(obj, group, key, val) ==
    Obj([obj[2] EXCEPT ![group] = Obj([q \in DOMAIN obj[2][group][2] \cup {key} |->
                                         IF q = key THEN val ELSE obj[2][group][2][q]])])

DocTable == [
    J_obj     |-> EmptyObj,
    J_list    |-> EmptyList,
    J_null    |-> Null,
    J_num     |-> Num(5),
    J_true    |-> Bool(TRUE),
    J_str     |-> Str(<<"Sorry", "SP", "no", "SP", "answer">>),
    M_flu     |-> Obj([illnesses |-> List(<<Flu>>)]),
    M_full    |-> Obj([illnesses |-> List(<<Flu>>), surgeries |-> EmptyList,
                       allergies |-> EmptyList, current_medications |-> EmptyList]),
    M_bad     |-> Obj([illnesses |-> W("flu"), surgeries |-> Null]),
    M_keys    |-> List(<<W("illnesses"), W("surgeries"), W("allergies"),
                         W("current_medications")>>),
    M_keystr  |-> Str(<<"illnesses", "SP", "surgeries", "SP", "allergies", "SP",
                        "current_medications">>),
    D_full    |-> Obj([marital_status |-> W("single"), occupation |-> W("nurse"),
                       ethnicity |-> EmptyStr, preferred_language |-> List(<<W("English")>>)]),
    D_part    |-> Obj([occupation |-> W("nurse")]),
    D_bad     |-> Obj([marital_status |-> Num(5), preferred_language |-> W("English")]),
    D_keys    |-> List(<<W("marital_status"), W("occupation"), W("ethnicity"),
                         W("preferred_language")>>),
    P_full    |-> PersonalFull,
    P_part    |-> Obj([name |-> PersonalFull[2]["name"]]),
    P_extra   |-> SetIn(PersonalFull, "name", "title", W("Dr")),
    P_num     |-> SetIn(PersonalFull, "name", "first_name", Num(5)),
    P_null    |-> SetIn(PersonalFull, "contact_info", "phone", Null),
    P_nested  |-> SetIn(PersonalFull, "name", "first_name", Obj([given |-> W("Ann")]))
  ]

\* json.loads: leading and trailing whitespace is allowed around the one document
json_loads(text) ==
    LET u == Strip(text)
    IN  IF Len(u) = 1 /\ u[1] \in DOMAIN DocTable THEN DocTable[u[1]]
        ELSE Raise("JSONDecodeError")

\* The collaborator's outcome: generate_content raises, or returns a text
RaiseReply == <<"raise", <<>>>>
Text(t)    == <<"text", t>>

\* `if key not in analyzed_data: analyzed_data[key] = val`
Backfill(data, key, val) ==
    IF IsRaise(data) THEN data
    ELSE CASE In(key, data) = "TypeError" -> Raise("TypeError")
           [] In(key, data) = "no"        -> SetItem(data, key, val)
           [] OTHER                       -> data

analyze_medical_history(reply) ==
    IF reply[1] = "raise" THEN MedDefault
    ELSE LET cleaned_response == clean_response_text(reply[2])
         IN  IF cleaned_response = <<>> THEN MedDefault
             ELSE LET analyzed_data == json_loads(cleaned_response)
                      b1 == Backfill(analyzed_data, "illnesses", EmptyList)
                      b2 == Backfill(b1, "surgeries", EmptyList)
                      b3 == Backfill(b2, "allergies", EmptyList)
                      b4 == Backfill(b3, "current_medications", EmptyList)
                  IN  IF IsRaise(b4) THEN MedDefault ELSE b4

analyze_demographic_info(reply) ==
    IF reply[1] = "raise" THEN DemoDefault
    ELSE LET cleaned_response == clean_response_text(reply[2])
         IN  IF cleaned_response = <<>> THEN DemoDefault
             ELSE LET analyzed_data == json_loads(cleaned_response)
                      b1 == Backfill(analyzed_data, "marital_status", EmptyStr)
                      b2 == Backfill(b1, "occupation", EmptyStr)
                      b3 == Backfill(b2, "ethnicity", EmptyStr)
                      b4 == Backfill(b3, "preferred_language", EmptyList)
                  IN  IF IsRaise(b4) THEN DemoDefault ELSE b4

\* The Schema Sanitizer (llm_analyzer.py:79-84).  The scalar line reads
\* `data if (data and not isinstance(data, str)) or data.strip() else ""`:
\* .strip() is called on every falsy value and on every str.
RECURSIVE sanitize(_, _)
sanitize(data, defaults) ==
    IF defaults[1] = "obj"
    THEN IF DOMAIN defaults[2] = {} THEN EmptyObj
         ELSE IF data[1] # "obj" THEN Raise("AttributeError")
         ELSE LET items == [key \in DOMAIN defaults[2] |->
                              sanitize(Get(data, key, EmptyStr), defaults[2][key])]
              IN  IF \E key \in DOMAIN items : IsRaise(items[key])
                  THEN Raise("AttributeError") ELSE Obj(items)
    ELSE IF defaults[1] = "list"
    THEN IF data[1] = "list" THEN data ELSE EmptyList
    ELSE IF Truthy(data) /\ data[1] # "str" THEN data
    ELSE IF data[1] # "str" THEN Raise("AttributeError")
    ELSE IF ~IsBlank(data[2]) THEN data ELSE EmptyStr

\* the extraction that returns {} when anything fails
analyze_personal_info_empty_on_error(reply) ==
    IF reply[1] = "raise" THEN EmptyObj
    ELSE LET analyzed_data == json_loads(clean_response_text(reply[2]))
         IN  IF IsRaise(analyzed_data) THEN EmptyObj
             ELSE LET clean == sanitize(analyzed_data, default_structure)
                  IN  IF IsRaise(clean) THEN EmptyObj ELSE clean

\* llm_analyzer.py:63-103: no empty-reply test, json.loads("") raises
analyze_personal_info(reply) ==
    IF reply[1] = "raise" THEN default_structure
    ELSE LET analyzed_data == json_loads(clean_response_text(reply[2]))
         IN  IF IsRaise(analyzed_data) THEN default_structure
             ELSE LET clean == sanitize(analyzed_data, default_structure)
                  IN  IF IsRaise(clean) THEN default_structure ELSE clean

-----------------------------------------------------------------------------
(* The patient store and the change-set diff (src/app.py)                  *)

\* a record before save_patient gave it an id has patient_id 0 (the key is absent)
NoRec == [patient_id |-> 0, personal_information |-> Null,
          demographic_information |-> Null, medical_history |-> Null]

Keys(db)      == {db[i].key : i \in DOMAIN db}
Values(db)    == [i \in DOMAIN db |-> db[i].rec]
Lookup(db, key) == db[CHOOSE i \in DOMAIN db : db[i].key = key].rec
\* patients_db[key] = rec: a dict keeps the position of a key it already holds
Put(db, key, rec) ==
    IF key \in Keys(db)
    THEN [i \in DOMAIN db |-> IF db[i].key = key THEN [key |-> key, rec |-> rec] ELSE db[i]]
    ELSE Append(db, [key |-> key, rec |-> rec])

Categories == {"personal_information", "demographic_information", "medical_history"}

\* the comprehension of lines 110-114 for one category whose values differ
SectionDiff(old, new) ==
    CASE new[1] = "obj" ->
           LET bad(q) == \/ In(q, old) = "TypeError"
                         \/ In(q, old) = "yes" /\ old[1] # "obj"
               changed(q) == In(q, old) = "no" \/ new[2][q] # old[2][q]
           IN  IF \E q \in DOMAIN new[2] : bad(q) THEN Raise("TypeError")
               ELSE Obj([q \in {r \in DOMAIN new[2] : changed(r)} |-> new[2][q]])
      \* a list or str is iterated, and indexing it by its str element raises
      \* (the model's lists hold no integers)
      [] new[1] \in {"list", "str"} ->
           IF new[2] = <<>> THEN EmptyObj ELSE Raise("TypeError")
      [] OTHER -> Raise("TypeError")

\* the diff that reports every key of a changed section
get_updated_fields_whole_section(old_data, new_data) ==
    IF old_data = NoRec THEN Obj([all |-> W("New patient record created")])
    ELSE LET differs == {c \in Categories : new_data[c] # old_data[c]}
         IN  IF \E c \in differs : IsRaise(SectionDiff(old_data[c], new_data[c]))
             THEN Raise("TypeError")
             ELSE Obj([c \in differs |-> new_data[c]])

get_updated_fields(old_data, new_data) ==
    IF old_data = NoRec THEN Obj([all |-> W("New patient record created")])
    ELSE LET differs == {c \in Categories : new_data[c] # old_data[c]}
         IN  IF \E c \in differs : IsRaise(SectionDiff(old_data[c], new_data[c]))
             THEN Raise("TypeError")
             ELSE Obj([c \in differs |-> SectionDiff(old_data[c], new_data[c])])

\* save_patient without the increment of line 128
save_patient_no_increment(db, counter, patient_info, patient_id) ==
    IF patient_id # 0
    THEN [db |-> Put(db, patient_id, patient_info), counter |-> counter,
          rec |-> patient_info]
    ELSE LET info == [patient_info EXCEPT !.patient_id = counter]
         IN  [db |-> Put(db, counter, info), counter |-> counter, rec |-> info]

\* patient_id 0 stands for None; returns the new store, counter and stored record
save_patient(db, counter, patient_info, patient_id) ==
    IF patient_id # 0
    THEN [db |-> Put(db, patient_id, patient_info), counter |-> counter,
          rec |-> patient_info]
    ELSE LET info == [patient_info EXCEPT !.patient_id = counter]
         IN  [db |-> Put(db, counter, info), counter |-> counter + 1, rec |-> info]

\* the lookup with the wrong field compared
FindByLastName(db, email) ==
    LET hits == SelectSeq(Values(db), LAMBDA r : r.personal_information[2]["last_name"] = email)
    IN  IF hits = <<>> THEN NoRec ELSE hits[1]

\* line 168: the first record, in the dict's order, with this email; NoRec for None
FindByEmail(db, email) ==
    LET hits == SelectSeq(Values(db), LAMBDA r : r.personal_information[2]["email"] = email)
    IN  IF hits = <<>> THEN NoRec ELSE hits[1]

required_personal_info == {"first_name", "last_name", "date_of_birth", "gender",
                           "email", "address"}
required_address_info  == {"line1", "line2", "city", "state", "postcode"}

\* all(field in x for field in fields): "yes", "no" or "TypeError"
AllIn(fields, x) ==
    IF \E f \in fields : In(f, x) = "TypeError" THEN "TypeError"
    ELSE YesNo(\A f \in fields : In(f, x) = "yes")

\* The handler's return value: the HTTP code and the body's fields
Resp(code, message, updates, patient_info) ==
    [code |-> code, status |-> IF code = 400 THEN "error" ELSE "success",
     message |-> message, updates |-> updates, patient_info |-> patient_info]

ErrorResp(message) == Resp(400, message, Null, NoRec)

\* lines 138-166: what the handler answers before it touches the store:
\* "ok", one of the three messages, or "exception" for the except of line 226
Validate(data) ==
    LET personal_information == Get(data, "personal_information", EmptyObj)
        has_personal == AllIn(required_personal_info, personal_information)
        address == Get(personal_information, "address", EmptyObj)
        has_address == AllIn(required_address_info, address)
        email == Get(personal_information, "email", Null)
    IN  IF IsRaise(personal_information) \/ has_personal = "TypeError"
        THEN "exception"
        ELSE IF has_personal = "no"
        THEN "Missing required personal information"
        ELSE IF IsRaise(address) \/ has_address = "TypeError"
        THEN "exception"
        ELSE IF has_address = "no"
        THEN "Incomplete address information"
        ELSE IF ~Truthy(email)
        THEN "Email is required to identify the patient"
        ELSE "ok"

\* line 160
EmailIn(data) == Get(Get(data, "personal_information", EmptyObj), "email", Null)

\* lines 176-187: the record an update stores
UpdateInfo(data, reply, existing_patient) ==
    LET info1 == [existing_patient EXCEPT
                    !.personal_information = Get(data, "personal_information", EmptyObj),
                    !.demographic_information = Get(data, "demographic_information", EmptyObj)]
    IN  IF In("medical_history", data) = "yes"
        THEN [info1 EXCEPT !.medical_history = analyze_medical_history(reply)]
        ELSE info1

\* lines 208-212: the record a create hands to save_patient
CreateInfo(data, reply) ==
    [patient_id |-> 0,
     personal_information |-> Get(data, "personal_information", EmptyObj),
     demographic_information |-> Get(data, "demographic_information", EmptyObj),
     medical_history |-> analyze_medical_history(reply)]

\* lines 192-202: the response of an update
UpdateResp(old_data, updated_patient) ==
    LET updated_fields == get_updated_fields(old_data, updated_patient)
    IN  IF IsRaise(updated_fields)
        THEN ErrorResp("exception")
        ELSE Resp(200, "Patient record updated successfully", updated_fields,
                  updated_patient)

\* lines 217-224: the response of a create
CreateResp(new_patient) ==
    Resp(201, "New patient record created successfully", Null, new_patient)

\* lines 171-202: the update branch
UpdateExisting(db, counter, data, reply, existing_patient) ==
    LET saved == save_patient(db, counter, UpdateInfo(data, reply, existing_patient),
                              existing_patient.patient_id)
    IN  [db |-> saved.db, counter |-> saved.counter,
         resp |-> UpdateResp(existing_patient, saved.rec)]

\* lines 204-224: the create branch
CreateNew(db, counter, data, reply) ==
    LET saved == save_patient(db, counter, CreateInfo(data, reply), 0)
    IN  [db |-> saved.db, counter |-> saved.counter, resp |-> CreateResp(saved.rec)]

\* lines 136-230: the whole handler, on request body `data` with the
\* collaborator answering `reply`; returns the store, the counter and the response
register_or_update_patient(db, counter, data, reply) ==
    LET existing_patient == FindByEmail(db, EmailIn(data))
    IN  IF Validate(data) # "ok"
        THEN [db |-> db, counter |-> counter, resp |-> ErrorResp(Validate(data))]
        ELSE IF existing_patient # NoRec
        THEN UpdateExisting(db, counter, data, reply, existing_patient)
        ELSE CreateNew(db, counter, data, reply)

-----------------------------------------------------------------------------
(* The requests and replies the model draws                                *)

Address == Obj([line1 |-> W("1 Main St"), line2 |-> EmptyStr, city |-> W("Leeds"),
                state |-> W("WY"), postcode |-> W("LS1")])

Person(email, last_name) ==
    Obj([first_name |-> W("Ann"), last_name |-> last_name,
         date_of_birth |-> W("1990-01-01"), gender |-> W("F"),
         email |-> email, address |-> Address])

Without(obj, key) == Obj([q \in DOMAIN obj[2] \ {key} |-> obj[2][q]])

\* the request body with the sections that are present
Body(personal, demographic, medical) ==
    LET all == [personal_information |-> personal, demographic_information |-> demographic,
                medical_history |-> medical]
    IN  Obj([q \in {r \in DOMAIN all : all[r] # Absent} |-> all[q]])

\* (email, last_name) of the people who register
People == {<<W("a@x.com"), W("Doe")>>, <<W("a@x.com"), W("Roe")>>,
           <<W("b@x.com"), W("Doe")>>}
\* a mapping, and a value that is not one
Demographics == {Absent, Obj([occupation |-> W("nurse")]), W("nurse")}
MedicalTexts == {Absent, EmptyStr, W("asthma")}

ValidBodies ==
    {Body(Person(p[1], p[2]), d, m) : p \in People, d \in Demographics,
                                      m \in MedicalTexts}

InvalidBodies ==
    { Body(Absent, Absent, Absent),
      Body(Without(Person(W("a@x.com"), W("Doe")), "last_name"), Absent, W("asthma")),
      Body(SetItem(Person(W("a@x.com"), W("Doe")), "address", Without(Address, "postcode")),
           Absent, Absent),
      Body(Person(EmptyStr, W("Doe")), Absent, Absent),
      Body(List(<<W("first_name"), W("last_name"), W("date_of_birth"), W("gender"),
                  W("email"), W("address")>>), Absent, Absent),
      Body(Num(5), Absent, Absent),
      EmptyList }

FencedFlu == Text(FenceOpen \o <<"NL", "M_flu", "NL">> \o FenceClose)

StoreReplies == {RaiseReply, FencedFlu}

-----------------------------------------------------------------------------
(* The service handling one request after another                          *)

\* the requests one run serves
MaxRequests == 3

NoResp == Resp(0, "", Null, NoRec)

Init ==
    /\ patients_db = <<>>
    /\ patient_id_counter = 1
    /\ request = Null
    /\ response = NoResp
    /\ served = 0
    /\ procs = <<>>
    /\ fin = Null
    /\ fout = Null

\* the requests the service is sent, each with the collaborator's answer to it
Requests == (ValidBodies \X StoreReplies) \cup (InvalidBodies \X {RaiseReply})

\* One request handled from its arrival to its response (the handler's
\* result is bound once, then assigned).
RegisterOrUpdate ==
    /\ served < MaxRequests
    /\ \E rq \in Requests :
         \E r \in {register_or_update_patient(patients_db, patient_id_counter,
                                               rq[1], rq[2])} :
            /\ served' = served + 1
            /\ request' = rq[1]
            /\ patients_db' = r.db
            /\ patient_id_counter' = r.counter
            /\ response' = r.resp
            /\ UNCHANGED <<procs, fin, fout>>

Next == RegisterOrUpdate

Spec == Init /\ [][Next]_vars

-----------------------------------------------------------------------------
(* Properties of the store under sequentially handled requests             *)

EmailOf(rec) == rec.personal_information[2]["email"]
WithEmail(db, email) == {i \in DOMAIN db : EmailOf(db[i].rec) = email}
Updated == response.code = 200
Created == response.code = 201

\* C1: no two stored records have the same email, and after an update the
\* one record with the request's email is the record the update returned,
\* under the id it had: the request replaced it and added none.
C1_EmailUnique ==
    /\ \A i, j \in DOMAIN patients_db :
          EmailOf(patients_db[i].rec) = EmailOf(patients_db[j].rec) => i = j
    /\ Updated =>
          /\ EmailOf(response.patient_info) = EmailOf([personal_information |->
                                                        request[2]["personal_information"]])
          /\ \A i \in WithEmail(patients_db, EmailOf(response.patient_info)) :
                /\ patients_db[i].rec = response.patient_info
                /\ patients_db[i].key = response.patient_info.patient_id

\* an update was handled while the store holds two patients
C1_Witness == Updated /\ Len(patients_db) = 2

\* C2: ids are given by creation only, 1, 2, 3, ... in the order of the
\* creates: the keys are 1..counter-1 in insertion order, each record holds
\* its key as patient_id, a create returns the largest id so far, and no
\* step changes the key or patient_id of a stored record or lowers the counter.
C2_Ids ==
    /\ patient_id_counter = Len(patients_db) + 1
    /\ \A i \in DOMAIN patients_db :
          patients_db[i].key = i /\ patients_db[i].rec.patient_id = i
    /\ Created => response.patient_info.patient_id = patient_id_counter - 1

C2_IdsStep ==
    /\ patient_id_counter' >= patient_id_counter
    /\ \A i \in DOMAIN patients_db :
          /\ i \in DOMAIN patients_db'
          /\ patients_db'[i].key = patients_db[i].key
          /\ patients_db'[i].rec.patient_id = patients_db[i].rec.patient_id
    /\ \A i \in DOMAIN patients_db' \ DOMAIN patients_db :
          /\ patients_db'[i].key = patient_id_counter
          /\ patient_id_counter' = patient_id_counter + 1
          /\ \A j \in DOMAIN patients_db : patients_db[j].key < patients_db'[i].key
    /\ Updated' => \E i \in DOMAIN patients_db :
          /\ patients_db[i].key = response'.patient_info.patient_id
          /\ EmailOf(patients_db[i].rec) = EmailOf(response'.patient_info)

C2_IdsAssignedOnce == [][C2_Ids /\ C2_Ids' /\ C2_IdsStep]_vars

\* a second patient was created and got id 2
C2_Witness == Created /\ response.patient_info.patient_id = 2 /\ Len(patients_db) = 2

\* the record stored under the id the response names
OldRecord == Lookup(patients_db, response'.patient_info.patient_id)
NewRecord == Lookup(patients_db', response'.patient_info.patient_id)

\* C3: an update whose request has no medical_history field, or has it as
\* empty text, leaves the stored medical_history as it was and replaces the
\* personal and demographic sections by the request's.
C3_NoMedicalTextKeepsHistory ==
    [][(Updated' /\ Get(request', "medical_history", Absent) \in {Absent, EmptyStr}) =>
         /\ NewRecord.medical_history = OldRecord.medical_history
         /\ NewRecord.personal_information = request'[2]["personal_information"]
         /\ NewRecord.demographic_information =
               Get(request', "demographic_information", EmptyObj)]_vars

\* the keys of a section (a value that is no mapping has none)
KeysOf(x) == IF x[1] = "obj" THEN DOMAIN x[2] ELSE {}

\* the change-set as the specification words it
ChangeSet(old, new) ==
    Obj([c \in {d \in Categories : new[d] # old[d]} |->
           Obj([q \in {r \in KeysOf(new[c]) :
                         r \notin KeysOf(old[c]) \/ new[c][2][r] # old[c][2][r]}
                 |-> new[c][2][q]])])

-----------------------------------------------------------------------------
(* The Text Normalizer applied to a reply, and again to its own output     *)

StoreIdle ==
    /\ patients_db = <<>>
    /\ patient_id_counter = 1
    /\ request = Null
    /\ response = NoResp
    /\ served = 0
    /\ procs = <<>>

\* the pieces a reply text is put together from
MaxParts == 3
Segments == {FenceOpen, <<"BT", "BT", "BT", "J", "S", "O", "N">>, FenceClose,
             <<"SP">>, <<"NL">>, <<"NUL">>, <<"x">>}
RECURSIVE TextsOf(_)
TextsOf(n) ==
    IF n = 0 THEN {<<>>}
    ELSE TextsOf(n - 1) \cup {t \o g : t \in TextsOf(n - 1), g \in Segments}

InitNormalize == StoreIdle /\ fin \in TextsOf(MaxParts) /\ fout = <<>>

Normalize ==
    /\ fout = <<>>
    /\ fout' = <<clean_response_text(fin)>>
    /\ UNCHANGED <<patients_db, patient_id_counter, request, response, served, procs, fin>>

NormalizeAgain ==
    /\ Len(fout) = 1
    /\ fout' = Append(fout, clean_response_text(fout[1]))
    /\ UNCHANGED <<patients_db, patient_id_counter, request, response, served, procs, fin>>

NextNormalize == Normalize \/ NormalizeAgain

SpecNormalize == InitNormalize /\ [][NextNormalize]_vars

\* C9: normalizing a normalized text returns it unchanged.
C9_NormalizerIdempotent == Len(fout) = 2 => fout[2] = fout[1]

-----------------------------------------------------------------------------
(* The Schema Sanitizer applied to a decoded value and a template          *)

\* the values a reply can hold where the schema has a leaf
Leaves == {Null, Num(0), Num(5), Bool(FALSE), Bool(TRUE),
           EmptyStr, Str(<<"SP", "SP">>), Str(<<"SP", "x", "SP">>), W("x"),
           EmptyList, List(<<W("x")>>), EmptyObj, Obj([given |-> W("Ann")])}

ExampleDefaults == Obj([a |-> EmptyStr, b |-> List(<<W("x")>>)])

\* data for a template {a, b}: each key missing or any leaf value
ExampleData ==
    {Obj([q \in DOMAIN f |-> f[q]]) :
        f \in UNION {[K -> Leaves] : K \in SUBSET {"a", "b"}}}

\* data for the personal schema: one leaf or one whole group replaced or dropped
PersonalData ==
    {SetIn(PersonalFull, "name", "first_name", v) : v \in Leaves}
    \cup {SetItem(PersonalFull, "address", v) : v \in Leaves}
    \cup {Without(PersonalFull, g) : g \in DOMAIN PersonalFull[2]}
    \cup {DocTable["P_extra"], PersonalFull}

SanitizeInputs ==
    (Leaves \X {EmptyStr, List(<<W("x")>>), ExampleDefaults, default_structure})
    \cup (ExampleData \X {ExampleDefaults})
    \cup (PersonalData \X {default_structure})

InitSanitize == StoreIdle /\ fin \in SanitizeInputs /\ fout = <<>>

Sanitize ==
    /\ fout = <<>>
    /\ fout' = <<sanitize(fin[1], fin[2])>>
    /\ UNCHANGED <<patients_db, patient_id_counter, request, response, served, procs, fin>>

NextSanitize == Sanitize

SpecSanitize == InitSanitize /\ [][NextSanitize]_vars

\* out has the template's keys, and only them, at every level
RECURSIVE SameKeys(_, _)
SameKeys(out, template) ==
    IF template[1] = "obj"
    THEN /\ out[1] = "obj"
         /\ DOMAIN out[2] = DOMAIN template[2]
         /\ \A q \in DOMAIN template[2] : SameKeys(out[2][q], template[2][q])
    ELSE out[1] \notin {"obj", "raise"}

\* C7: whatever the decoded value, sanitize returns a value with exactly the
\* template's keys at every level.
C7_SanitizedHasTemplateKeys == fout # <<>> => SameKeys(fout[1], fin[2])

\* C8: at a scalar template node sanitize returns "" for null and for an
\* empty or blank string (a missing key arrives as ""), and data unchanged
\* otherwise; at a sequence node it returns data if it is a sequence and []
\* otherwise; so {a: "  ", b: "not-a-list"} under {a: "", b: ["x"]} gives
\* {a: "", b: []}.
C8_ScalarAndSequenceNodes ==
    fout # <<>> =>
      /\ fin[2] = EmptyStr =>
            fout[1] = IF fin[1] = Null \/ (fin[1][1] = "str" /\ IsBlank(fin[1][2]))
                      THEN EmptyStr ELSE fin[1]
      /\ fin[2][1] = "list" =>
            fout[1] = IF fin[1][1] = "list" THEN fin[1] ELSE EmptyList
      /\ fin = <<Obj([a |-> Str(<<"SP", "SP">>), b |-> W("x")]), ExampleDefaults>> =>
            fout[1] = Obj([a |-> EmptyStr, b |-> EmptyList])

-----------------------------------------------------------------------------
(* The three extraction operations on one reply of the collaborator        *)

\* fence, blank, line-break and control characters around the payload
MaxWrap == 1
Wrappers == {FenceOpen, FenceClose, <<"SP">>, <<"NL">>, <<"NUL">>}
RECURSIVE WrapsOf(_)
WrapsOf(n) ==
    IF n = 0 THEN {<<>>}
    ELSE WrapsOf(n - 1) \cup {t \o g : t \in WrapsOf(n - 1), g \in Wrappers}

\* a JSON document by name, text that is no JSON, or nothing
Payloads == {<<d>> : d \in DOMAIN DocTable} \cup {<<"x">>, <<>>}

Replies ==
    {RaiseReply} \cup
    {Text(a \o b \o c) : a \in WrapsOf(MaxWrap), b \in Payloads, c \in WrapsOf(MaxWrap)}

InitExtract == StoreIdle /\ fin \in Replies /\ fout = <<>>

AnalyzePersonalInfo ==
    /\ fout = <<>>
    /\ fout' = <<"personal", analyze_personal_info(fin)>>
    /\ UNCHANGED <<patients_db, patient_id_counter, request, response, served, procs, fin>>

AnalyzeDemographicInfo ==
    /\ fout = <<>>
    /\ fout' = <<"demographic", analyze_demographic_info(fin)>>
    /\ UNCHANGED <<patients_db, patient_id_counter, request, response, served, procs, fin>>

AnalyzeMedicalHistory ==
    /\ fout = <<>>
    /\ fout' = <<"medical", analyze_medical_history(fin)>>
    /\ UNCHANGED <<patients_db, patient_id_counter, request, response, served, procs, fin>>

NextExtract == AnalyzePersonalInfo \/ AnalyzeDemographicInfo \/ AnalyzeMedicalHistory

SpecExtract == InitExtract /\ [][NextExtract]_vars

DefaultShape(category) ==
    CASE category = "personal"    -> default_structure
      [] category = "demographic" -> DemoDefault
      [] category = "medical"     -> MedDefault

\* the collaborator raised, or its normalized reply is empty or no JSON
NoDocument(reply) ==
    \/ reply[1] = "raise"
    \/ clean_response_text(reply[2]) = <<>>
    \/ IsRaise(json_loads(clean_response_text(reply[2])))

\* C5: an extraction never raises, and returns its category's default shape
\* when the collaborator raised or the normalized reply is empty or no JSON.
C5_ExtractionNeverRaises ==
    fout # <<>> =>
      /\ ~IsRaise(fout[2])
      /\ NoDocument(fin) => fout[2] = DefaultShape(fout[1])

\* the collaborator raised and the personal extraction returned its default
C5_Witness == fout # <<>> /\ fin = RaiseReply /\ fout = <<"personal", default_structure>>

IsStrValue(x)  == x[1] = "str"
IsListValue(x) == x[1] = "list"

\* a mapping with the default's keys whose fields have the default's types
WellShaped(category, x) ==
    /\ x[1] = "obj"
    /\ DOMAIN DefaultShape(category)[2] \subseteq DOMAIN x[2]
    /\ category = "medical" => \A q \in MedKeys : IsListValue(x[2][q])
    /\ category = "demographic" =>
          /\ IsListValue(x[2]["preferred_language"])
          /\ \A q \in DemoStrKeys : IsStrValue(x[2][q])
    /\ category = "personal" =>
          \A g \in DOMAIN default_structure[2] :
             /\ x[2][g][1] = "obj"
             /\ DOMAIN default_structure[2][g][2] \subseteq DOMAIN x[2][g][2]
             /\ \A q \in DOMAIN default_structure[2][g][2] : IsStrValue(x[2][g][2][q])

\* C6: for every reply that decodes to a JSON value, what an extraction
\* returns is a well-shaped record of its category.
C6_ExtractionWellShaped ==
    (fout # <<>> /\ ~NoDocument(fin)) => WellShaped(fout[1], fout[2])

-----------------------------------------------------------------------------
(* Requests handled concurrently: each handler runs the route one shared   *)
(* access at a time, with no lock on patients_db or patient_id_counter     *)

\* the handler threads one run starts
MaxHandlers == 2

\* what the concurrent requests carry
ConcurrentRequests ==
    { <<Body(Person(W("a@x.com"), W("Doe")), Absent, W("asthma")), FencedFlu>>,
      <<Body(Person(W("a@x.com"), W("Roe")), Absent, Absent), RaiseReply>>,
      <<Body(Person(W("b@x.com"), W("Doe")), Absent, Absent), RaiseReply>>,
      <<Body(Person(EmptyStr, W("Doe")), Absent, Absent), RaiseReply>> }

InFlight(h) == procs[h].pc # "done"

\* line 138: a request arrives and a handler starts on it.  `overlapped`
\* records, for the properties only, that another handler was then running.
Receive ==
    /\ Len(procs) < MaxHandlers
    /\ \E rq \in ConcurrentRequests :
         LET busy == \E h \in DOMAIN procs : InFlight(h)
         IN  /\ procs' = Append([h \in DOMAIN procs |->
                                   IF InFlight(h) THEN [procs[h] EXCEPT !.overlapped = TRUE]
                                   ELSE procs[h]],
                                [pc |-> "lookup", data |-> rq[1], reply |-> rq[2],
                                 existing_patient |-> NoRec, patient_info |-> NoRec,
                                 patient_id |-> 0, overlapped |-> busy])
             /\ request' = rq[1]
             /\ served' = served + 1
    /\ UNCHANGED <<patients_db, patient_id_counter, response, fin, fout>>

\* lines 139-183: the checks, then the lookup of line 168 reads the store
FindExisting(h) ==
    /\ procs[h].pc = "lookup"
    /\ LET data == procs[h].data
           existing_patient == FindByEmail(patients_db, EmailIn(data))
       IN  IF Validate(data) # "ok"
           THEN /\ procs' = [procs EXCEPT ![h].pc = "done"]
                /\ response' = ErrorResp(Validate(data))
           ELSE /\ response' = response
                /\ procs' = [procs EXCEPT
                      ![h].existing_patient = existing_patient,
                      ![h].pc = IF existing_patient = NoRec
                                   \/ In("medical_history", data) = "yes"
                                THEN "extract" ELSE "write_update",
                      ![h].patient_info =
                           IF existing_patient # NoRec /\ In("medical_history", data) = "no"
                           THEN UpdateInfo(data, procs[h].reply, existing_patient)
                           ELSE NoRec]
    /\ UNCHANGED <<patients_db, patient_id_counter, request, served, fin, fout>>

\* lines 187 and 212: the blocking call of analyze_medical_history
Extract(h) ==
    /\ procs[h].pc = "extract"
    /\ procs' = [procs EXCEPT
          ![h].patient_info =
               IF procs[h].existing_patient # NoRec
               THEN UpdateInfo(procs[h].data, procs[h].reply, procs[h].existing_patient)
               ELSE CreateInfo(procs[h].data, procs[h].reply),
          ![h].pc = IF procs[h].existing_patient # NoRec THEN "write_update"
                    ELSE "read_counter"]
    /\ UNCHANGED <<patients_db, patient_id_counter, request, response, served, fin, fout>>

\* line 124: patients_db[patient_id] = patient_info
WriteUpdate(h) ==
    /\ procs[h].pc = "write_update"
    /\ patients_db' = Put(patients_db, procs[h].existing_patient.patient_id,
                          procs[h].patient_info)
    /\ procs' = [procs EXCEPT ![h].patient_id = procs[h].existing_patient.patient_id,
                              ![h].pc = "return"]
    /\ UNCHANGED <<patient_id_counter, request, response, served, fin, fout>>

\* line 127: patient_id = patient_id_counter
ReadCounter(h) ==
    /\ procs[h].pc = "read_counter"
    /\ procs' = [procs EXCEPT ![h].patient_id = patient_id_counter,
                              ![h].pc = "increment"]
    /\ UNCHANGED <<patients_db, patient_id_counter, request, response, served, fin, fout>>

\* a create that leaves the counter as it read it
SkipIncrement(h) ==
    /\ procs[h].pc = "increment"
    /\ procs' = [procs EXCEPT ![h].pc = "write_new"]
    /\ UNCHANGED <<patients_db, patient_id_counter, request, response, served, fin, fout>>

\* line 128: patient_id_counter += 1
Increment(h) ==
    /\ procs[h].pc = "increment"
    /\ patient_id_counter' = patient_id_counter + 1
    /\ procs' = [procs EXCEPT ![h].pc = "write_new"]
    /\ UNCHANGED <<patients_db, request, response, served, fin, fout>>

\* lines 129-130: the id is put in the record and the record in the store
WriteNew(h) ==
    /\ procs[h].pc = "write_new"
    /\ LET info == [procs[h].patient_info EXCEPT !.patient_id = procs[h].patient_id]
       IN  /\ patients_db' = Put(patients_db, procs[h].patient_id, info)
           /\ procs' = [procs EXCEPT ![h].patient_info = info, ![h].pc = "return"]
    /\ UNCHANGED <<patient_id_counter, request, response, served, fin, fout>>

\* line 132 reads the store again; lines 190-202 and 217-224 answer
Return(h) ==
    /\ procs[h].pc = "return"
    /\ LET saved == Lookup(patients_db, procs[h].patient_id)
       IN  response' = IF procs[h].existing_patient # NoRec
                       THEN UpdateResp(procs[h].existing_patient, saved)
                       ELSE CreateResp(saved)
    /\ procs' = [procs EXCEPT ![h].pc = "done"]
    /\ UNCHANGED <<patients_db, patient_id_counter, request, served, fin, fout>>

InitConcurrent == Init

NextConcurrent ==
    \/ Receive
    \/ \E h \in DOMAIN procs : FindExisting(h)
    \/ \E h \in DOMAIN procs : Extract(h)
    \/ \E h \in DOMAIN procs : WriteUpdate(h)
    \/ \E h \in DOMAIN procs : ReadCounter(h)
    \/ \E h \in DOMAIN procs : Increment(h)
    \/ \E h \in DOMAIN procs : WriteNew(h)
    \/ \E h \in DOMAIN procs : Return(h)

SpecConcurrent == InitConcurrent /\ [][NextConcurrent]_vars

\* handlers that created a record and have stored it
Creates == {h \in DOMAIN procs : /\ procs[h].pc \in {"return", "done"}
                                 /\ procs[h].patient_id # 0
                                 /\ procs[h].existing_patient = NoRec}

\* two stored records share an email
DuplicateEmail ==
    \E i, j \in DOMAIN patients_db :
       i # j /\ EmailOf(patients_db[i].rec) = EmailOf(patients_db[j].rec)

\* two creates obtained the same patient_id: one record replaced the other
LostCreate == \E g, h \in Creates : g # h /\ procs[g].patient_id = procs[h].patient_id

\* C10: the store races under concurrent requests.  The races come from the
\* overlap alone: as long as no handler has run while another was running,
\* no two records share an email and every create keeps its own record; and
\* two records share an email only after two overlapping creates for that
\* email, each of which saw no existing record.  With overlapping handlers
\* the state with two records of one email is reached (C10_Witness).
C10_RacesNeedOverlap ==
    /\ (\A h \in DOMAIN procs : ~procs[h].overlapped) => (~DuplicateEmail /\ ~LostCreate)
    /\ DuplicateEmail =>
          \E g, h \in Creates :
             /\ g # h
             /\ EmailIn(procs[g].data) = EmailIn(procs[h].data)
             /\ procs[g].overlapped /\ procs[h].overlapped
    /\ LostCreate =>
          \E g, h \in Creates :
             /\ g # h
             /\ procs[g].patient_id = procs[h].patient_id
             /\ procs[g].overlapped /\ procs[h].overlapped

\* both requests saw no record for the email, and both records are stored
C10_Witness ==
    /\ DuplicateEmail
    /\ \A h \in DOMAIN procs : procs[h].pc = "done" /\ procs[h].existing_patient = NoRec

-----------------------------------------------------------------------------
(* Error responses of the sequentially handled route                       *)

Failed == response.code = 400

\* C11: whenever register_or_update answers with status "error" (HTTP 400),
\* the patient store and the id counter are as they were before the request.
C11_ErrorLeavesStoreUnchanged ==
    [][Failed' => (patients_db' = patients_db /\ patient_id_counter' = patient_id_counter)]_vars
====
